---- MODULE Spec2Model ----
(***************************************************************************)
(* A model of the vmm crate: fixed-size vectors VecN<T, N> and square      *)
(* matrices MatN<T, N> over a numeric scalar type T, their arithmetic and  *)
(* the Mat3/Mat4 transform builders.                                       *)
(*                                                                         *)
(* Scalars are tagged tuples:                                              *)
(*   <<"n", i>>      the finite value i (an integer, exactly)              *)
(*   <<"inf", s>>    the float infinity of sign s                          *)
(*   <<"nan", 0>>    the float NaN                                         *)
(*   <<"panic", 0>>  no value: the operation that computed it panicked     *)
(*   any other tag   the float that IEEE-754 arithmetic returns for the    *)
(*                   named operation on the named operands, where that     *)
(*                   float is not an integer the model can write down      *)
(*                   (<<"q", x, y>> is x / y, <<"cos", x>> is cos(x), ...) *)
(* The negative float zero is not told apart from zero (Rust's == does not *)
(* tell them apart either).                                                *)
(***************************************************************************)
EXTENDS Integers, Sequences, FiniteSets, TLC

VARIABLES
    T,                \* the scalar type the generic code is instantiated with
    overflow_checks,  \* whether the build panics on integer overflow (debug)
    N,                \* the dimension the generic code is instantiated with
    vself, vother,    \* two VecN<T, N> values
    mself, mrhs,      \* two MatN<T, N> values
    writes,           \* how many indexed writes have built the operands
    op,               \* the operation applied last
    arg,              \* its scalar and index arguments
    res,              \* the value it returned
    out               \* "ok" when it returned, "panic" when it aborted

vars == <<T, overflow_checks, N, vself, vother, mself, mrhs, writes, op, arg, res, out>>

\* How many indexed writes build the operands of one behaviour.
MaxWrites == 1

\* ------------------------------------------------------------------------
\* The scalar types

I8Min == -128
I8Max == 127
\* Every integer of magnitude up to 2^24 is an f32; above it an f32 is a
\* multiple of 2, then of 4, ...
F32Exact == 16777216

IsFloat(t) == t \in {"f32", "f64"}

IntMin(t) == IF t = "i8" THEN I8Min ELSE -2147483647 - 1
IntMax(t) == IF t = "i8" THEN I8Max ELSE 2147483647
IntSpan(t) == IF t = "i8" THEN 256 ELSE 0

Num(i) == <<"n", i>>
Inf(s) == <<"inf", s>>
NaN == <<"nan", 0>>
Panic == <<"panic", 0>>

Tag(x) == x[1]
IsNum(x) == Tag(x) = "n"
IsZero(x) == Tag(x) = "n" /\ x[2] = 0
IsOne(x) == Tag(x) = "n" /\ x[2] = 1
IsPanic(x) == Tag(x) = "panic"
IsNaN(x) == Tag(x) = "nan"
IsInf(x) == Tag(x) = "inf"
IsFinite(x) == ~ IsPanic(x) /\ ~ IsNaN(x) /\ ~ IsInf(x)

Abs(i) == IF i < 0 THEN -i ELSE i
Sign(i) == IF i < 0 THEN -1 ELSE 1

RECURSIVE Gcd(_, _)
Gcd(a, b) == IF b = 0 THEN a ELSE Gcd(b, a % b)

\* T::default(): zero for every numeric scalar type.
Default == Num(0)

\* Into::<T>::into(1), the identity's diagonal value.
One == Num(1)

\* An integer result r of type T: kept when it fits, else a panic (overflow
\* checks on) or the two's complement wrap (overflow checks off).
IntResult(r) ==
    IF r >= IntMin(T) /\ r <= IntMax(T) THEN Num(r)
    ELSE IF overflow_checks THEN Panic
    ELSE Num(((r - IntMin(T)) % IntSpan(T)) + IntMin(T))

\* The unit in the last place of an f32 of magnitude a.
RECURSIVE Ulp(_, _)
Ulp(a, u) == IF a <= F32Exact * u THEN u ELSE Ulp(a, 2 * u)

\* The float of type T nearest to the integer r, ties to the even mantissa.
\* Every integer the model writes down is an f64.
Round(r) ==
    IF T = "f64" \/ Abs(r) <= F32Exact THEN r
    ELSE LET a == Abs(r)
             u == Ulp(a, 1)
             q == a \div u
             m == a % u
             up == (2 * m > u) \/ (2 * m = u /\ q % 2 = 1)
         IN  Sign(r) * (IF up THEN q + 1 ELSE q) * u

\* Products the model can write down as integers.
MulFits(a, b) == a = 0 \/ b = 0 \/ Abs(a) <= 1073741824 \div Abs(b)

\* -x
SNeg(x) ==
    IF IsPanic(x) THEN Panic
    ELSE IF IsNaN(x) THEN NaN
    ELSE IF IsInf(x) THEN Inf(-x[2])
    ELSE IF IsNum(x) THEN (IF IsFloat(T) THEN Num(-x[2]) ELSE IntResult(-x[2]))
    ELSE IF Tag(x) = "neg" THEN x[2]
    ELSE <<"neg", x>>

\* Sums the model can write down as integers.
AddFits(a, b) == Abs(a) <= 536870912 /\ Abs(b) <= 536870912

\* x + y
SAdd(x, y) ==
    IF IsPanic(x) \/ IsPanic(y) THEN Panic
    ELSE IF ~ IsFloat(T) THEN IntResult(x[2] + y[2])
    ELSE IF IsNaN(x) \/ IsNaN(y) THEN NaN
    ELSE IF IsInf(x) /\ IsInf(y) THEN (IF x[2] = y[2] THEN x ELSE NaN)
    ELSE IF IsInf(x) THEN x
    ELSE IF IsInf(y) THEN y
    ELSE IF IsNum(x) /\ IsNum(y) /\ AddFits(x[2], y[2]) THEN Num(Round(x[2] + y[2]))
    ELSE IF IsZero(x) THEN y
    ELSE IF IsZero(y) THEN x
    ELSE <<"add", x, y>>

\* x - y
SSub(x, y) ==
    IF IsPanic(x) \/ IsPanic(y) THEN Panic
    ELSE IF ~ IsFloat(T) THEN IntResult(x[2] - y[2])
    ELSE SAdd(x, SNeg(y))

\* The sign of a float that is not NaN: of a symbolic float it is not known
\* to the model, which never asks for it.
FSign(x) == IF IsInf(x) THEN x[2] ELSE Sign(x[2])

\* x * y
SMul(x, y) ==
    IF IsPanic(x) \/ IsPanic(y) THEN Panic
    ELSE IF ~ IsFloat(T) THEN IntResult(x[2] * y[2])
    ELSE IF IsNaN(x) \/ IsNaN(y) THEN NaN
    ELSE IF IsInf(x) \/ IsInf(y) THEN
        (IF IsZero(x) \/ IsZero(y) THEN NaN
         ELSE IF (IsInf(x) \/ IsNum(x)) /\ (IsInf(y) \/ IsNum(y))
              THEN Inf(FSign(x) * FSign(y))
              ELSE <<"mul", x, y>>)
    ELSE IF IsNum(x) /\ IsNum(y) /\ MulFits(x[2], y[2]) THEN Num(Round(x[2] * y[2]))
    ELSE IF IsZero(x) \/ IsZero(y) THEN Num(0)
    ELSE IF IsOne(x) THEN y
    ELSE IF IsOne(y) THEN x
    ELSE <<"mul", x, y>>

\* The integer quotient, truncated toward zero.
TruncDiv(a, b) == Sign(a) * Sign(b) * (Abs(a) \div Abs(b))

\* x / y for an integer T: a zero divisor panics in every build, and so does
\* MIN / -1.
IDiv(x, y) ==
    IF y[2] = 0 THEN Panic
    ELSE IF x[2] = IntMin(T) /\ y[2] = -1 THEN Panic
    ELSE Num(TruncDiv(x[2], y[2]))

\* x / y for a float T.
FDiv(x, y) ==
    IF IsNaN(x) \/ IsNaN(y) THEN NaN
    ELSE IF IsInf(x) THEN
        (IF IsInf(y) THEN NaN
         ELSE IF IsNum(y) THEN Inf(x[2] * Sign(y[2]))
         ELSE <<"q", x, y>>)
    ELSE IF IsInf(y) THEN Num(0)
    ELSE IF IsZero(y) THEN
        (IF IsZero(x) THEN NaN
         ELSE IF IsNum(x) THEN Inf(Sign(x[2]))
         ELSE <<"q", x, y>>)
    ELSE IF IsNum(x) /\ IsNum(y) THEN
        (IF Abs(x[2]) % Abs(y[2]) = 0 THEN Num(TruncDiv(x[2], y[2]))
         ELSE LET g == Gcd(Abs(x[2]), Abs(y[2]))
              IN  <<"q", Num(Sign(x[2]) * Sign(y[2]) * (Abs(x[2]) \div g)),
                         Num(Abs(y[2]) \div g)>>)
    ELSE IF IsZero(x) THEN Num(0)
    ELSE IF IsOne(y) THEN x
    ELSE <<"q", x, y>>

\* x / y
SDiv(x, y) ==
    IF IsPanic(x) \/ IsPanic(y) THEN Panic
    ELSE IF IsFloat(T) THEN FDiv(x, y)
    ELSE IDiv(x, y)

RECURSIVE ISqrt(_, _)
ISqrt(a, r) == IF (r + 1) * (r + 1) > a THEN r ELSE ISqrt(a, r + 1)

\* x.sqrrt(), implemented for f32 and f64 alone.
Sqrrt(x) ==
    IF IsPanic(x) THEN Panic
    ELSE IF IsNaN(x) THEN NaN
    ELSE IF IsInf(x) THEN (IF x[2] = 1 THEN x ELSE NaN)
    ELSE IF IsNum(x) THEN
        (IF x[2] < 0 THEN NaN
         ELSE LET r == ISqrt(x[2], 0)
              IN  IF r * r = x[2] THEN Num(r) ELSE <<"sqrt", x>>)
    ELSE <<"sqrt", x>>

\* x == y of the scalar type (PartialEq): NaN equals nothing.
SEq(x, y) == ~ IsNaN(x) /\ ~ IsNaN(y) /\ x = y

\* ------------------------------------------------------------------------
\* VecN<T, N>: data is a function from the positions 0..N-1 to scalars

Pos == 0 .. N - 1

\* The array [f[0], ..., f[n - 1]], each element computed once.
RECURSIVE Array(_, _)
Array(f, n) ==
    IF n = 1 THEN 0 :> f[0] ELSE Array(f, n - 1) @@ ((n - 1) :> f[n - 1])

\* VecN::new()
VecNew == [i \in Pos |-> Default]

\* VecN::new_with(value)
VecNewWith(value) == [i \in Pos |-> value]

\* VecN::from_array(data): a copy of the array
FromArray(data) == [i \in Pos |-> data[i]]

\* self.to_arr(): the array itself
ToArr(self) == self

\* Whether computing a vector (a matrix) panicked on the way.
VPanics(v) == \E i \in DOMAIN v : IsPanic(v[i])
MPanics(m) == \E i \in DOMAIN m : VPanics(m[i])

\* self[index]: the array's own bounds check
VecIndex(self, index) == IF index \in DOMAIN self THEN self[index] ELSE Panic

\* A write that clamps the index to the last position
VecIndexMutClamped(self, index, value) ==
    IF index \in DOMAIN self THEN [self EXCEPT ![index] = value]
    ELSE [self EXCEPT ![N - 1] = value]

\* self[index] = value: the vector after the write, unchanged when the
\* bounds check panics
VecIndexMut(self, index, value) ==
    IF index \in DOMAIN self THEN [self EXCEPT ![index] = value] ELSE self

\* rhs - self for self - rhs
VecSubReversed(self, rhs) == [i \in Pos |-> SSub(rhs[i], self[i])]

\* self + rhs, self - rhs, self * rhs, self / rhs, position by position
VecAdd(self, rhs) == [i \in Pos |-> SAdd(self[i], rhs[i])]
VecSub(self, rhs) == [i \in Pos |-> SSub(self[i], rhs[i])]
VecMul(self, rhs) == [i \in Pos |-> SMul(self[i], rhs[i])]
VecDiv(self, rhs) == [i \in Pos |-> SDiv(self[i], rhs[i])]

\* value added where mul_scalar multiplies
VecMulScalarAdds(self, value) == [i \in Pos |-> SAdd(self[i], value)]

\* The four scalar operations
VecSumScalar(self, value) == [i \in Pos |-> SAdd(self[i], value)]
VecSubScalar(self, value) == [i \in Pos |-> SSub(self[i], value)]
VecMulScalar(self, value) == [i \in Pos |-> SMul(self[i], value)]
VecDivScalar(self, value) == [i \in Pos |-> SDiv(self[i], value)]

\* Iterator::sum of the first n terms, from zero, in order
RECURSIVE IterSum(_, _)
IterSum(terms, n) ==
    IF n = 0 THEN Default ELSE SAdd(IterSum(terms, n - 1), terms[n - 1])

\* dot multiplying self by itself
DotOfSelf(self, other) == IterSum([i \in Pos |-> SMul(self[i], self[i])], N)

\* self.dot(other)
Dot(self, other) == IterSum([i \in Pos |-> SMul(self[i], other[i])], N)

\* length without the square root
LengthSquared(self) == IterSum([i \in Pos |-> SMul(self[i], self[i])], N)

\* self.length()
Length(self) == Sqrrt(IterSum([i \in Pos |-> SMul(self[i], self[i])], N))

\* normalize dividing by the sum of the squares
NormalizeBySquare(self) ==
    LET len == LengthSquared(self)
    IN  [i \in Pos |-> SDiv(self[i], len)]

\* normalize returning the zero vector for a zero length
NormalizeZeroGuard(self) ==
    LET len == Length(self)
    IN  IF IsZero(len) THEN VecNew ELSE [i \in Pos |-> SDiv(self[i], len)]

\* self.normalize()
Normalize(self) ==
    LET len == Length(self)
    IN  [i \in Pos |-> SDiv(self[i], len)]

\* self.fill(value): every position overwritten
VecFill(self, value) == [i \in DOMAIN self |-> value]

\* cross with the second component's terms exchanged
CrossSecondReversed(self, other) ==
    (0 :> SSub(SMul(VecIndex(self, 1), VecIndex(other, 2)), SMul(VecIndex(self, 2), VecIndex(other, 1))))
    @@ (1 :> SSub(SMul(VecIndex(self, 0), VecIndex(other, 2)), SMul(VecIndex(self, 2), VecIndex(other, 0))))
    @@ (2 :> SSub(SMul(VecIndex(self, 0), VecIndex(other, 1)), SMul(VecIndex(self, 1), VecIndex(other, 0))))

\* cross adding the two products of the first component
CrossFirstAdds(self, other) ==
    (0 :> SAdd(SMul(VecIndex(self, 1), VecIndex(other, 2)), SMul(VecIndex(self, 2), VecIndex(other, 1))))
    @@ (1 :> SSub(SMul(VecIndex(self, 2), VecIndex(other, 0)), SMul(VecIndex(self, 0), VecIndex(other, 2))))
    @@ (2 :> SSub(SMul(VecIndex(self, 0), VecIndex(other, 1)), SMul(VecIndex(self, 1), VecIndex(other, 0))))

\* Vec3::cross(&self, other)
Cross(self, other) ==
    (0 :> SSub(SMul(VecIndex(self, 1), VecIndex(other, 2)), SMul(VecIndex(self, 2), VecIndex(other, 1))))
    @@ (1 :> SSub(SMul(VecIndex(self, 2), VecIndex(other, 0)), SMul(VecIndex(self, 0), VecIndex(other, 2))))
    @@ (2 :> SSub(SMul(VecIndex(self, 0), VecIndex(other, 1)), SMul(VecIndex(self, 1), VecIndex(other, 0))))

\* v == w of two vectors (the derived PartialEq)
VecEq(v, w) == \A i \in Pos : SEq(v[i], w[i])

\* ------------------------------------------------------------------------
\* MatN<T, N>: data is a function from the rows 0..N-1 to VecN<T, N>

\* MatN::new()
MatNew == [i \in Pos |-> VecNew]

\* MatN::new_with(value)
MatNewWith(value) == [i \in Pos |-> VecNewWith(value)]

\* self[row][col]
MatIndex2(self, row, col) ==
    IF row \in DOMAIN self THEN VecIndex(self[row], col) ELSE Panic

\* self[row][col] = value: the matrix after the write, unchanged when either
\* bounds check panics
MatIndexMut2(self, row, col, value) ==
    IF row \in DOMAIN self /\ col \in DOMAIN self[row]
    THEN [self EXCEPT ![row] = VecIndexMut(self[row], col, value)]
    ELSE self

\* MatN::from_mat_vec(data): the array of rows copied
FromMatVec(data) == [i \in Pos |-> data[i]]

\* self.to_mat_vec(): the array of rows
ToMatVec(self) == self

\* from_mat pairing the rows of the result with the rows of data from the end
FromMatReversed(data) == [i \in Pos |-> FromArray(data[N - 1 - i])]

\* MatN::from_mat(data): each raw row converted with from_array
FromMat(data) == [i \in Pos |-> FromArray(data[i])]

\* self.to_mat(): a copy of the rows as raw arrays
ToMat(self) == [i \in Pos |-> ToArr(self[i])]

\* identity() writing the other diagonal
RECURSIVE IdentityLoopAntiDiagonal(_, _)
IdentityLoopAntiDiagonal(result, i) ==
    IF i = N THEN result
    ELSE IdentityLoopAntiDiagonal(MatIndexMut2(result, i, N - 1 - i, One), i + 1)

\* Identity::identity()
RECURSIVE IdentityLoop(_, _)
IdentityLoop(result, i) ==
    IF i = N THEN result
    ELSE IdentityLoop(MatIndexMut2(result, i, i, One), i + 1)

\* identity() with a loop that starts one row late
IdentitySkipsFirst == IdentityLoop(MatNew, 1)

Identity == IdentityLoop(MatNew, 0)

\* self * rhs. The loops over i and j visit each cell of result once, and
\* the loop over k accumulates into that cell alone: KLoop is the inner
\* loop, acc the cell result[i][j].
RECURSIVE KLoop(_, _, _, _, _, _)
KLoop(acc, self, rhs, i, j, k) ==
    IF k = N THEN acc
    ELSE KLoop(SAdd(acc, SMul(self[i][k], rhs[k][j])), self, rhs, i, j, k + 1)

\* self * rhs reading rhs[j][k] for rhs[k][j]
RECURSIVE KLoopSwapped(_, _, _, _, _, _)
KLoopSwapped(acc, self, rhs, i, j, k) ==
    IF k = N THEN acc
    ELSE KLoopSwapped(SAdd(acc, SMul(self[i][k], rhs[j][k])), self, rhs, i, j, k + 1)

MatMulSwapped(self, rhs) ==
    Array([i \in Pos |-> Array([j \in Pos |-> KLoopSwapped(MatNew[i][j], self, rhs, i, j, 0)], N)], N)

MatMul(self, rhs) ==
    Array([i \in Pos |-> Array([j \in Pos |-> KLoop(MatNew[i][j], self, rhs, i, j, 0)], N)], N)

\* self.fill(value): every row overwritten with new_with(value)
MatFill(self, value) == [i \in DOMAIN self |-> VecNewWith(value)]

\* transpose reading result[j][i], the matrix being written, for self[j][i]
RECURSIVE TransposeLoopInPlace(_, _, _)
TransposeLoopInPlace(result, self, c) ==
    IF c = N * N THEN result
    ELSE TransposeLoopInPlace(
             MatIndexMut2(result, c \div N, c % N, MatIndex2(result, c % N, c \div N)),
             self, c + 1)

\* The loops of transpose over i and j, c = i * N + j counting the cells
\* already written: result[i][j] = self[j][i].
RECURSIVE TransposeLoop(_, _, _)
TransposeLoop(result, self, c) ==
    IF c = N * N THEN result
    ELSE TransposeLoop(
             MatIndexMut2(result, c \div N, c % N, MatIndex2(self, c % N, c \div N)),
             self, c + 1)

\* self.transpose(): result starts as a clone of self
Transpose(self) == TransposeLoop(self, self, 0)

\* self + rhs adding the entry rhs[j][i] for rhs[i][j]
MatAddTransposed(self, rhs) == [i \in Pos |-> [j \in Pos |-> SAdd(self[i][j], rhs[j][i])]]

\* self + rhs and self - rhs: each row added to (subtracted from) its row
MatAdd(self, rhs) == [i \in Pos |-> VecAdd(self[i], rhs[i])]
MatSub(self, rhs) == [i \in Pos |-> VecSub(self[i], rhs[i])]

\* mul_scalar of a matrix multiplying the first row alone
MatMulScalarFirstRow(self, value) ==
    [i \in Pos |-> IF i = 0 THEN VecMulScalar(self[i], value) ELSE self[i]]

\* The four scalar operations of a matrix, each row by the vector's own
MatSumScalar(self, value) == [i \in Pos |-> VecSumScalar(self[i], value)]
MatSubScalar(self, value) == [i \in Pos |-> VecSubScalar(self[i], value)]
MatMulScalar(self, value) == [i \in Pos |-> VecMulScalar(self[i], value)]
MatDivScalar(self, value) == [i \in Pos |-> VecDivScalar(self[i], value)]

\* mul_mat_vec reading the column self[j][i] for the row self[i][j]
RECURSIVE JLoopColumn(_, _, _, _, _)
JLoopColumn(acc, self, vec, i, j) ==
    IF j = N THEN acc
    ELSE JLoopColumn(SAdd(acc, SMul(VecIndex(vec, j), self[j][i])), self, vec, i, j + 1)

MulMatVecColumns(self, vec) == Array([i \in Pos |-> JLoopColumn(VecNew[i], self, vec, i, 0)], N)

\* The inner loop of mul_mat_vec over the row i, acc being result[i]:
\* result[i] = result[i] + vec[j] * self[i][j]
RECURSIVE JLoop(_, _, _, _, _)
JLoop(acc, self, vec, i, j) ==
    IF j = N THEN acc
    ELSE JLoop(SAdd(acc, SMul(VecIndex(vec, j), self[i][j])), self, vec, i, j + 1)

\* self.mul_mat_vec(vec)
MulMatVec(self, vec) == Array([i \in Pos |-> JLoop(VecNew[i], self, vec, i, 0)], N)

\* m == r of two matrices (the derived PartialEq)
MatEq(m, r) == \A i \in Pos : VecEq(m[i], r[i])

\* ------------------------------------------------------------------------
\* MatTransforms for Mat3<T> and Mat4<T>, which T = f64 alone instantiates
\* (T: From<f64> + Into<f64> + From<i32>)

\* x.cos() and x.sin() of an f64: exact at zero, NaN off the finite numbers
\* f64::cos returning the sine
CosAsSine(x) ==
    IF IsPanic(x) THEN Panic
    ELSE IF IsNaN(x) \/ IsInf(x) THEN NaN
    ELSE IF IsZero(x) THEN Num(0)
    ELSE <<"sin", x>>

Cos(x) ==
    IF IsPanic(x) THEN Panic
    ELSE IF IsNaN(x) \/ IsInf(x) THEN NaN
    ELSE IF IsZero(x) THEN Num(1)
    ELSE <<"cos", x>>

Sin(x) ==
    IF IsPanic(x) THEN Panic
    ELSE IF IsNaN(x) \/ IsInf(x) THEN NaN
    ELSE IF IsZero(x) THEN Num(0)
    ELSE <<"sin", x>>

\* f64::tan: exact at 0, NaN off the finite numbers
Tan(x) ==
    IF IsPanic(x) THEN Panic
    ELSE IF IsNaN(x) \/ IsInf(x) THEN NaN
    ELSE IF IsZero(x) THEN Num(0)
    ELSE <<"tan", x>>

\* (x as f64).cos() as T for an integer x: the cosine of an integer is 1 at
\* 0 and strictly between -1 and 1 elsewhere, which the cast truncates to 0.
CosAsInt(x) == IF IsZero(x) THEN Num(1) ELSE Num(0)

\* SinCosTan::coss(&self)
Coss(x) == IF IsFloat(T) THEN Cos(x) ELSE CosAsInt(x)

\* SinCosTan::sinn(&self): the integer types call cos()
Sinn(x) == IF IsFloat(T) THEN Sin(x) ELSE CosAsInt(x)

\* SinCosTan::tann(&self): the integer types call cos()
Tann(x) == IF IsFloat(T) THEN Tan(x) ELSE CosAsInt(x)

\* Mat3::translate(&self, vec: &Vec2<T>)
Mat3Translate(self, vec) ==
    LET r0 == Identity
        r1 == MatIndexMut2(r0, 0, 2, VecIndex(vec, 0))
        r2 == MatIndexMut2(r1, 1, 2, VecIndex(vec, 1))
    IN  r2

\* translate writing the last row for the last column
Mat4TranslateRow(self, vec) ==
    LET r0 == Identity
        r1 == MatIndexMut2(r0, 3, 0, VecIndex(vec, 0))
        r2 == MatIndexMut2(r1, 3, 1, VecIndex(vec, 1))
        r3 == MatIndexMut2(r2, 3, 2, VecIndex(vec, 2))
    IN  r3

\* Mat4::translate(&self, vec: &Vec3<T>)
Mat4Translate(self, vec) ==
    LET r0 == Identity
        r1 == MatIndexMut2(r0, 0, 3, VecIndex(vec, 0))
        r2 == MatIndexMut2(r1, 1, 3, VecIndex(vec, 1))
        r3 == MatIndexMut2(r2, 2, 3, VecIndex(vec, 2))
    IN  r3

\* rotate composing the three rotations in the order Z, Y, X
RotateBodyZYX(self, angle, axis) ==
    LET x_angle == SMul(VecIndex(axis, 0), angle)
        y_angle == SMul(VecIndex(axis, 1), angle)
        z_angle == SMul(VecIndex(axis, 2), angle)
        x_cos == Cos(x_angle)
        x_sin == Sin(x_angle)
        y_cos == Cos(y_angle)
        y_sin == Sin(y_angle)
        z_cos == Cos(z_angle)
        z_sin == Sin(z_angle)
        x1 == MatIndexMut2(Identity, 1, 1, x_cos)
        x2 == MatIndexMut2(x1, 1, 2, SNeg(x_sin))
        x3 == MatIndexMut2(x2, 2, 1, x_sin)
        x_mat == MatIndexMut2(x3, 2, 2, x_cos)
        y1 == MatIndexMut2(Identity, 0, 0, y_cos)
        y2 == MatIndexMut2(y1, 0, 2, y_sin)
        y3 == MatIndexMut2(y2, 2, 0, SNeg(y_sin))
        y_mat == MatIndexMut2(y3, 2, 2, y_cos)
        z1 == MatIndexMut2(Identity, 0, 0, z_cos)
        z2 == MatIndexMut2(z1, 0, 1, SNeg(z_sin))
        z3 == MatIndexMut2(z2, 1, 0, z_sin)
        z_mat == MatIndexMut2(z3, 1, 1, z_cos)
    IN  MatMul(self, MatMul(MatMul(z_mat, y_mat), x_mat))

\* The body Mat3::rotate and Mat4::rotate share, line for line.
RotateBody(self, angle, axis) ==
    LET x_angle == SMul(VecIndex(axis, 0), angle)
        y_angle == SMul(VecIndex(axis, 1), angle)
        z_angle == SMul(VecIndex(axis, 2), angle)
        x_cos == Cos(x_angle)
        x_sin == Sin(x_angle)
        y_cos == Cos(y_angle)
        y_sin == Sin(y_angle)
        z_cos == Cos(z_angle)
        z_sin == Sin(z_angle)
        x1 == MatIndexMut2(Identity, 1, 1, x_cos)
        x2 == MatIndexMut2(x1, 1, 2, SNeg(x_sin))
        x3 == MatIndexMut2(x2, 2, 1, x_sin)
        x_mat == MatIndexMut2(x3, 2, 2, x_cos)
        y1 == MatIndexMut2(Identity, 0, 0, y_cos)
        y2 == MatIndexMut2(y1, 0, 2, y_sin)
        y3 == MatIndexMut2(y2, 2, 0, SNeg(y_sin))
        y_mat == MatIndexMut2(y3, 2, 2, y_cos)
        z1 == MatIndexMut2(Identity, 0, 0, z_cos)
        z2 == MatIndexMut2(z1, 0, 1, SNeg(z_sin))
        z3 == MatIndexMut2(z2, 1, 0, z_sin)
        z_mat == MatIndexMut2(z3, 1, 1, z_cos)
    IN  MatMul(self, MatMul(MatMul(x_mat, y_mat), z_mat))

\* Mat3::rotate(&self, angle: f64, axis: &Vec3<T>)
Mat3Rotate(self, angle, axis) == RotateBody(self, angle, axis)

\* Mat4::rotate(&self, angle: f64, axis: &Vec3<T>)
Mat4Rotate(self, angle, axis) == RotateBody(self, angle, axis)

\* Mat3::scale(&self, values: &Vec3<T>)
Mat3Scale(self, values) ==
    LET r0 == Identity
        r1 == MatIndexMut2(r0, 0, 0, VecIndex(values, 0))
        r2 == MatIndexMut2(r1, 1, 1, VecIndex(values, 1))
        r3 == MatIndexMut2(r2, 2, 2, VecIndex(values, 2))
    IN  r3

\* Mat4::scale(&self, values: &Vec3<T>)
Mat4Scale(self, values) ==
    LET r0 == Identity
        r1 == MatIndexMut2(r0, 0, 0, VecIndex(values, 0))
        r2 == MatIndexMut2(r1, 1, 1, VecIndex(values, 1))
        r3 == MatIndexMut2(r2, 2, 2, VecIndex(values, 2))
    IN  r3

\* The trait's methods, by the type that implements them.
Translate(self, vec) == IF N = 3 THEN Mat3Translate(self, vec) ELSE Mat4Translate(self, vec)
Rotate(self, angle, axis) == IF N = 3 THEN Mat3Rotate(self, angle, axis) ELSE Mat4Rotate(self, angle, axis)
Scale(self, values) == IF N = 3 THEN Mat3Scale(self, values) ELSE Mat4Scale(self, values)

\* ------------------------------------------------------------------------
\* The state machine: operands are built by the constructors and by indexed
\* writes, and each operation leaves its result in res and out.

NoRes == <<>>
NoArg == [which |-> "", i |-> 0, j |-> 0, value |-> Default, vec |-> <<>>, data |-> <<>>]

\* The values the behaviours write into the operands, per scalar type.
WriteVals ==
    IF T = "i8" THEN {Num(-1), Num(2), Num(3), Num(I8Max)}
    ELSE IF T = "i32" THEN {Num(-1), Num(2), Num(3)}
    ELSE IF T = "f32" THEN {Num(-1), Num(3), Num(F32Exact), Inf(1)}
    ELSE {Num(-1), Num(2), Inf(1), NaN}

Outcome(panicked) == IF panicked THEN "panic" ELSE "ok"

\* The initial state of every specification: the operands are new().
InitWith(types, dims) ==
    /\ T \in types
    /\ overflow_checks \in (IF T = "i8" THEN BOOLEAN ELSE {FALSE})
    /\ N \in dims
    /\ vself = VecNew /\ vother = VecNew
    /\ mself = MatNew /\ mrhs = MatNew
    /\ writes = 0
    /\ op = "new" /\ arg = NoArg /\ res = NoRes /\ out = "ok"

\* m = MatN::new_with(value)
MatNewWithOp(targets) ==
    /\ \E which \in targets, value \in WriteVals :
        /\ mself' = IF which = "self" THEN MatNewWith(value) ELSE mself
        /\ mrhs' = IF which = "rhs" THEN MatNewWith(value) ELSE mrhs
        /\ arg' = [NoArg EXCEPT !.which = which, !.value = value]
    /\ op' = "mat_new_with" /\ res' = NoRes /\ out' = "ok"
    /\ UNCHANGED <<T, overflow_checks, N, vself, vother, writes>>

\* The 2D arrays the behaviours pass to from_mat: 1, 2, 3, ... row by row.
RawMats == {[i \in Pos |-> [j \in Pos |-> Num(i * N + j + 1)]]}

\* m = MatN::from_mat(&data), for the 2D arrays given
MatFromMatWith(targets, mats) ==
    /\ \E which \in targets, data \in mats :
        /\ mself' = IF which = "self" THEN FromMat(data) ELSE mself
        /\ mrhs' = IF which = "rhs" THEN FromMat(data) ELSE mrhs
        /\ arg' = [NoArg EXCEPT !.which = which, !.data = data]
    /\ op' = "from_mat" /\ res' = NoRes /\ out' = "ok"
    /\ UNCHANGED <<T, overflow_checks, N, vself, vother, writes>>

MatFromMatOp(targets) == MatFromMatWith(targets, RawMats)

\* m = MatN::identity(), which needs T: From<i32>
MatIdentityOp(targets) ==
    /\ T \in {"i32", "f64"}
    /\ \E which \in targets :
        /\ mself' = IF which = "self" THEN Identity ELSE mself
        /\ mrhs' = IF which = "rhs" THEN Identity ELSE mrhs
        /\ arg' = [NoArg EXCEPT !.which = which]
    /\ op' = "identity" /\ res' = NoRes /\ out' = "ok"
    /\ UNCHANGED <<T, overflow_checks, N, vself, vother, writes>>

\* m[row][col] = value, for the positions of rows
MatIndexMutOp(targets, rows) ==
    /\ writes < MaxWrites
    /\ \E which \in targets, row \in rows, col \in rows, value \in WriteVals :
        /\ mself' = IF which = "self" THEN MatIndexMut2(mself, row, col, value) ELSE mself
        /\ mrhs' = IF which = "rhs" THEN MatIndexMut2(mrhs, row, col, value) ELSE mrhs
        /\ arg' = [NoArg EXCEPT !.which = which, !.i = row, !.j = col, !.value = value]
        /\ out' = Outcome(IsPanic(MatIndex2(mself, row, col)))
    /\ writes' = writes + 1
    /\ op' = "mat_index_mut" /\ res' = NoRes
    /\ UNCHANGED <<T, overflow_checks, N, vself, vother>>

\* res = mself * mrhs
MatMulOp ==
    /\ LET r == MatMul(mself, mrhs)
       IN  /\ out' = Outcome(MPanics(r))
           /\ res' = IF MPanics(r) THEN NoRes ELSE r
    /\ op' = "mat_mul" /\ arg' = NoArg
    /\ UNCHANGED <<T, overflow_checks, N, vself, vother, mself, mrhs, writes>>

\* Matrices of dimension 2 over i8 (both builds), i32 and f64.
InitMat == InitWith({"i8", "i32", "f64"}, {2})

NextMat ==
    \/ MatNewWithOp({"self", "rhs"})
    \/ MatIdentityOp({"self", "rhs"})
    \/ MatIndexMutOp({"self", "rhs"}, Pos)
    \/ MatMulOp

SpecMat == InitMat /\ [][NextMat]_vars

\* The arguments of the transform builders.
XfVals == {Num(2), Num(3)}
Angles == {Num(0), Num(1), Inf(1)}
\* The axes: the zero axis, the three unit axes, (1, 2, 3) and (inf, 0, 0).
Axes ==
    {[i \in 0 .. 2 |-> Num(IF i = k THEN 1 ELSE 0)] : k \in 0 .. 3}
        \cup {[i \in 0 .. 2 |-> Num(i + 1)]}
        \cup {[i \in 0 .. 2 |-> IF i = 0 THEN Inf(1) ELSE Num(0)]}

\* res = mself.translate(&vec), vec a Vec2 for Mat3 and a Vec3 for Mat4
TranslateOp ==
    /\ \E vec \in [0 .. N - 2 -> XfVals] :
        /\ res' = Translate(mself, vec)
        /\ arg' = [NoArg EXCEPT !.vec = vec]
    /\ op' = "translate" /\ out' = "ok"
    /\ UNCHANGED <<T, overflow_checks, N, vself, vother, mself, mrhs, writes>>

\* res = mself.rotate(angle, &axis), for the angles and axes given
RotateWith(angles, axes) ==
    /\ \E angle \in angles, axis \in axes :
        /\ res' = Rotate(mself, angle, axis)
        /\ arg' = [NoArg EXCEPT !.value = angle, !.vec = axis]
    /\ op' = "rotate" /\ out' = "ok"
    /\ UNCHANGED <<T, overflow_checks, N, vself, vother, mself, mrhs, writes>>

RotateOp == RotateWith(Angles, Axes)

\* res = mself.scale(&values)
ScaleOp ==
    /\ \E values \in [0 .. 2 -> XfVals] :
        /\ res' = Scale(mself, values)
        /\ arg' = [NoArg EXCEPT !.vec = values]
    /\ op' = "scale" /\ out' = "ok"
    /\ UNCHANGED <<T, overflow_checks, N, vself, vother, mself, mrhs, writes>>

\* Mat3<f64> and Mat4<f64>, the base matrix built by a constructor.
InitXf == InitWith({"f64"}, {3, 4})

NextXf ==
    \/ MatNewWithOp({"self"})
    \/ MatFromMatOp({"self"})
    \/ MatIdentityOp({"self"})
    \/ TranslateOp
    \/ RotateOp
    \/ ScaleOp

SpecXf == InitXf /\ [][NextXf]_vars

\* v = VecN::new_with(value)
VecNewWithOp(targets) ==
    /\ \E which \in targets, value \in WriteVals :
        /\ vself' = IF which = "self" THEN VecNewWith(value) ELSE vself
        /\ vother' = IF which = "other" THEN VecNewWith(value) ELSE vother
        /\ arg' = [NoArg EXCEPT !.which = which, !.value = value]
    /\ op' = "vec_new_with" /\ res' = NoRes /\ out' = "ok"
    /\ UNCHANGED <<T, overflow_checks, N, mself, mrhs, writes>>

\* v[index] = value, for the positions of idxs
VecIndexMutOp(targets, idxs) ==
    /\ writes < MaxWrites
    /\ \E which \in targets, index \in idxs, value \in WriteVals :
        /\ vself' = IF which = "self" THEN VecIndexMut(vself, index, value) ELSE vself
        /\ vother' = IF which = "other" THEN VecIndexMut(vother, index, value) ELSE vother
        /\ arg' = [NoArg EXCEPT !.which = which, !.i = index, !.value = value]
        /\ out' = Outcome(IsPanic(VecIndex(vself, index)))
    /\ writes' = writes + 1
    /\ op' = "vec_index_mut" /\ res' = NoRes
    /\ UNCHANGED <<T, overflow_checks, N, mself, mrhs>>

\* res = vself[index], for the positions of idxs
VecIndexOp(idxs) ==
    /\ \E index \in idxs :
        LET r == VecIndex(vself, index)
        IN  /\ out' = Outcome(IsPanic(r))
            /\ res' = IF IsPanic(r) THEN NoRes ELSE <<r>>
            /\ arg' = [NoArg EXCEPT !.i = index]
    /\ op' = "vec_index"
    /\ UNCHANGED <<T, overflow_checks, N, vself, vother, mself, mrhs, writes>>

\* res = mself[row][col], for the positions of rows
MatIndexOp(rows) ==
    /\ \E row \in rows, col \in rows :
        LET r == MatIndex2(mself, row, col)
        IN  /\ out' = Outcome(IsPanic(r))
            /\ res' = IF IsPanic(r) THEN NoRes ELSE <<r>>
            /\ arg' = [NoArg EXCEPT !.i = row, !.j = col]
    /\ op' = "mat_index"
    /\ UNCHANGED <<T, overflow_checks, N, vself, vother, mself, mrhs, writes>>

\* The outcome of an operation that returns the vector r.
VecResult(r) ==
    /\ out' = Outcome(VPanics(r))
    /\ res' = IF VPanics(r) THEN NoRes ELSE r

\* vself + vother leaving the sum in vself as well
VecAddAssignOp ==
    /\ VecResult(VecAdd(vself, vother))
    /\ vself' = IF VPanics(VecAdd(vself, vother)) THEN vself ELSE VecAdd(vself, vother)
    /\ op' = "vec_add" /\ arg' = NoArg
    /\ UNCHANGED <<T, overflow_checks, N, vother, mself, mrhs, writes>>

\* res = vself + vother
VecAddOp ==
    /\ VecResult(VecAdd(vself, vother))
    /\ op' = "vec_add" /\ arg' = NoArg
    /\ UNCHANGED <<T, overflow_checks, N, vself, vother, mself, mrhs, writes>>

\* res = lhs - vother, lhs being vself or the sum the last step returned
VecSubOp ==
    /\ \E lhs \in {"self"} \cup (IF op = "vec_add" /\ out = "ok" THEN {"res"} ELSE {}) :
        /\ VecResult(VecSub(IF lhs = "res" THEN res ELSE vself, vother))
        /\ arg' = [NoArg EXCEPT !.which = lhs]
    /\ op' = "vec_sub"
    /\ UNCHANGED <<T, overflow_checks, N, vself, vother, mself, mrhs, writes>>

\* res = vself / vother
VecDivOp ==
    /\ VecResult(VecDiv(vself, vother))
    /\ op' = "vec_div" /\ arg' = NoArg
    /\ UNCHANGED <<T, overflow_checks, N, vself, vother, mself, mrhs, writes>>

\* res = vself.mul_scalar(value)
VecMulScalarOp ==
    /\ \E value \in WriteVals \cup {Default} :
        /\ VecResult(VecMulScalar(vself, value))
        /\ arg' = [NoArg EXCEPT !.value = value]
    /\ op' = "mul_scalar"
    /\ UNCHANGED <<T, overflow_checks, N, vself, vother, mself, mrhs, writes>>

\* res = lhs.div_scalar(value): lhs is vself, or the product the last step
\* returned, divided by the scalar it was multiplied by
VecDivScalarOp ==
    /\ \E lhs \in {"self"} \cup (IF op = "mul_scalar" /\ out = "ok" THEN {"res"} ELSE {}) :
        \E value \in (IF lhs = "res" THEN {arg.value} ELSE WriteVals \cup {Default}) :
            /\ VecResult(VecDivScalar(IF lhs = "res" THEN res ELSE vself, value))
            /\ arg' = [NoArg EXCEPT !.which = lhs, !.value = value]
    /\ op' = "div_scalar"
    /\ UNCHANGED <<T, overflow_checks, N, vself, vother, mself, mrhs, writes>>

\* res = vself.normalize(), which needs T: Sqrrt
NormalizeOp ==
    /\ IsFloat(T)
    /\ VecResult(Normalize(vself))
    /\ op' = "normalize" /\ arg' = NoArg
    /\ UNCHANGED <<T, overflow_checks, N, vself, vother, mself, mrhs, writes>>

\* Vectors of dimension 2 over i8 (both builds), f32 and f64.
InitVec == InitWith({"i8", "f32", "f64"}, {2})

NextVec ==
    \/ VecNewWithOp({"self", "other"})
    \/ VecIndexMutOp({"self", "other"}, Pos)
    \/ VecAddOp
    \/ VecSubOp
    \/ VecDivOp
    \/ VecMulScalarOp
    \/ VecDivScalarOp
    \/ NormalizeOp

SpecVec == InitVec /\ [][NextVec]_vars

\* Indexed reads and writes of a Vec2<i32> and a 2 x 2 matrix, at the
\* positions 0 .. N: N itself is out of range.
InitIdx == InitWith({"i32"}, {2})

NextIdx ==
    \/ VecNewWithOp({"self"})
    \/ MatNewWithOp({"self"})
    \/ VecIndexMutOp({"self"}, 0 .. N)
    \/ MatIndexMutOp({"self"}, 0 .. N)
    \/ VecIndexOp(0 .. N)
    \/ MatIndexOp(0 .. N)

SpecIdx == InitIdx /\ [][NextIdx]_vars

\* The arrays the behaviours pass to from_array: 1, 2, ... and the second
\* vector of the doctests, [5, 6] for N = 2 and [4, 5, 6] for N = 3.
RawVecs == {[i \in Pos |-> Num(i + 1)], [i \in Pos |-> Num(i + 7 - N)]}

\* v = VecN::from_array(&data), for the arrays given
VecFromArrayWith(targets, arrays) ==
    /\ \E which \in targets, data \in arrays :
        /\ vself' = IF which = "self" THEN FromArray(data) ELSE vself
        /\ vother' = IF which = "other" THEN FromArray(data) ELSE vother
        /\ arg' = [NoArg EXCEPT !.which = which, !.data = data]
    /\ op' = "from_array" /\ res' = NoRes /\ out' = "ok"
    /\ UNCHANGED <<T, overflow_checks, N, mself, mrhs, writes>>

VecFromArrayOp(targets) == VecFromArrayWith(targets, RawVecs)

\* The argument record of an export: the array the operand was built from
\* when the last step built it with the constructor named, which "built".
BuiltBy(ctor) ==
    IF op = ctor /\ arg.which = "self"
    THEN [NoArg EXCEPT !.which = "built", !.data = arg.data]
    ELSE NoArg

\* res = mself.to_mat()
MatToMatOp ==
    /\ res' = ToMat(mself)
    /\ op' = "to_mat" /\ arg' = BuiltBy("from_mat") /\ out' = "ok"
    /\ UNCHANGED <<T, overflow_checks, N, vself, vother, mself, mrhs, writes>>

\* res = vself.to_arr()
VecToArrOp ==
    /\ res' = ToArr(vself)
    /\ op' = "to_arr" /\ arg' = BuiltBy("from_array") /\ out' = "ok"
    /\ UNCHANGED <<T, overflow_checks, N, vself, vother, mself, mrhs, writes>>

\* m = MatN::from_mat_vec(&data), the rows being from_array of the rows of
\* the 2D arrays given
MatFromMatVecWith(targets, mats) ==
    /\ \E which \in targets, raw \in mats :
        LET data == [i \in Pos |-> FromArray(raw[i])]
        IN  /\ mself' = IF which = "self" THEN FromMatVec(data) ELSE mself
            /\ mrhs' = IF which = "rhs" THEN FromMatVec(data) ELSE mrhs
            /\ arg' = [NoArg EXCEPT !.which = which, !.data = data]
    /\ op' = "from_mat_vec" /\ res' = NoRes /\ out' = "ok"
    /\ UNCHANGED <<T, overflow_checks, N, vself, vother, writes>>

\* res = mself.to_mat_vec()
MatToMatVecOp ==
    /\ res' = ToMatVec(mself)
    /\ op' = "to_mat_vec" /\ arg' = BuiltBy("from_mat_vec") /\ out' = "ok"
    /\ UNCHANGED <<T, overflow_checks, N, vself, vother, mself, mrhs, writes>>

\* res = lhs.transpose(), lhs being mself or the transpose of mself the
\* last step returned
TransposeOp ==
    /\ \E lhs \in {"self"} \cup
                  (IF op = "transpose" /\ arg.which = "self" THEN {"res"} ELSE {}) :
        /\ res' = Transpose(IF lhs = "res" THEN res ELSE mself)
        /\ arg' = [NoArg EXCEPT !.which = lhs]
    /\ op' = "transpose" /\ out' = "ok"
    /\ UNCHANGED <<T, overflow_checks, N, vself, vother, mself, mrhs, writes>>

\* res = mself.mul_mat_vec(&vother)
MulMatVecOp ==
    /\ VecResult(MulMatVec(mself, vother))
    /\ op' = "mul_mat_vec" /\ arg' = NoArg
    /\ UNCHANGED <<T, overflow_checks, N, vself, vother, mself, mrhs, writes>>

\* A matrix and a vector of dimension 2 or 3 over i8 (both builds), i32 and
\* f64.
InitLin == InitWith({"i8", "i32", "f64"}, {2, 3})

NextLin ==
    \/ MatNewWithOp({"self"})
    \/ MatFromMatOp({"self"})
    \/ MatIdentityOp({"self"})
    \/ MatIndexMutOp({"self"}, Pos)
    \/ VecFromArrayOp({"other"})
    \/ MatToMatOp
    \/ TransposeOp
    \/ MulMatVecOp

SpecLin == InitLin /\ [][NextLin]_vars

\* res = a.cross(&b): a is vself and b vother, or the other way round
CrossOp ==
    /\ N = 3
    /\ \E receiver \in {"self", "other"} :
        /\ VecResult(IF receiver = "self" THEN Cross(vself, vother) ELSE Cross(vother, vself))
        /\ arg' = [NoArg EXCEPT !.which = receiver]
    /\ op' = "cross"
    /\ UNCHANGED <<T, overflow_checks, N, vself, vother, mself, mrhs, writes>>

\* res = vself.dot(&vother), which needs T: Sqrrt
DotOp ==
    /\ IsFloat(T)
    /\ res' = <<Dot(vself, vother)>>
    /\ op' = "dot" /\ arg' = NoArg /\ out' = "ok"
    /\ UNCHANGED <<T, overflow_checks, N, vself, vother, mself, mrhs, writes>>

\* Vectors of dimension 3 over i8 (both builds) and f64.
InitVec3 == InitWith({"i8", "f64"}, {3})

NextVec3 ==
    \/ VecNewWithOp({"self", "other"})
    \/ VecFromArrayOp({"self", "other"})
    \/ VecIndexMutOp({"self", "other"}, Pos)
    \/ CrossOp
    \/ DotOp

SpecVec3 == InitVec3 /\ [][NextVec3]_vars

\* res = vself * vother
VecMulOp ==
    /\ VecResult(VecMul(vself, vother))
    /\ op' = "vec_mul" /\ arg' = NoArg
    /\ UNCHANGED <<T, overflow_checks, N, vself, vother, mself, mrhs, writes>>

\* The outcome of an operation that returns the matrix r.
MatResult(r) ==
    /\ out' = Outcome(MPanics(r))
    /\ res' = IF MPanics(r) THEN NoRes ELSE r

\* res = mself + mrhs
MatAddOp ==
    /\ MatResult(MatAdd(mself, mrhs))
    /\ op' = "mat_add" /\ arg' = NoArg
    /\ UNCHANGED <<T, overflow_checks, N, vself, vother, mself, mrhs, writes>>

\* res = mself - mrhs
MatSubOp ==
    /\ MatResult(MatSub(mself, mrhs))
    /\ op' = "mat_sub" /\ arg' = NoArg
    /\ UNCHANGED <<T, overflow_checks, N, vself, vother, mself, mrhs, writes>>

\* Vectors and matrices of dimension 2 over i8 (both builds) and f64, built
\* by the constructors.
InitElem == InitWith({"i8", "f64"}, {2})

NextElem ==
    \/ VecNewWithOp({"self", "other"})
    \/ VecFromArrayOp({"self", "other"})
    \/ MatNewWithOp({"rhs"})
    \/ MatFromMatOp({"self", "rhs"})
    \/ VecAddOp
    \/ VecSubOp
    \/ VecMulOp
    \/ VecDivOp
    \/ MatAddOp
    \/ MatSubOp

SpecElem == InitElem /\ [][NextElem]_vars

\* The scalars the behaviours pass to the scalar operations of SpecOps.
ScalarVals == {Default, Num(2)}

\* res = vself.sum_scalar(value)
VecSumScalarOp ==
    /\ \E value \in ScalarVals :
        /\ VecResult(VecSumScalar(vself, value))
        /\ arg' = [NoArg EXCEPT !.value = value]
    /\ op' = "sum_scalar"
    /\ UNCHANGED <<T, overflow_checks, N, vself, vother, mself, mrhs, writes>>

\* res = vself.sub_scalar(value)
VecSubScalarOp ==
    /\ \E value \in ScalarVals :
        /\ VecResult(VecSubScalar(vself, value))
        /\ arg' = [NoArg EXCEPT !.value = value]
    /\ op' = "sub_scalar"
    /\ UNCHANGED <<T, overflow_checks, N, vself, vother, mself, mrhs, writes>>

\* res = vself.length(), which needs T: Sqrrt
LengthOp ==
    /\ IsFloat(T)
    /\ res' = <<Length(vself)>>
    /\ op' = "length" /\ arg' = NoArg /\ out' = "ok"
    /\ UNCHANGED <<T, overflow_checks, N, vself, vother, mself, mrhs, writes>>

\* res = mself.sum_scalar(value)
MatSumScalarOp ==
    /\ \E value \in ScalarVals :
        /\ MatResult(MatSumScalar(mself, value))
        /\ arg' = [NoArg EXCEPT !.value = value]
    /\ op' = "mat_sum_scalar"
    /\ UNCHANGED <<T, overflow_checks, N, vself, vother, mself, mrhs, writes>>

\* res = mself.sub_scalar(value)
MatSubScalarOp ==
    /\ \E value \in ScalarVals :
        /\ MatResult(MatSubScalar(mself, value))
        /\ arg' = [NoArg EXCEPT !.value = value]
    /\ op' = "mat_sub_scalar"
    /\ UNCHANGED <<T, overflow_checks, N, vself, vother, mself, mrhs, writes>>

\* res = mself.mul_scalar(value)
MatMulScalarOp ==
    /\ \E value \in ScalarVals :
        /\ MatResult(MatMulScalar(mself, value))
        /\ arg' = [NoArg EXCEPT !.value = value]
    /\ op' = "mat_mul_scalar"
    /\ UNCHANGED <<T, overflow_checks, N, vself, vother, mself, mrhs, writes>>

\* res = mself.div_scalar(value)
MatDivScalarOp ==
    /\ \E value \in ScalarVals :
        /\ MatResult(MatDivScalar(mself, value))
        /\ arg' = [NoArg EXCEPT !.value = value]
    /\ op' = "mat_div_scalar"
    /\ UNCHANGED <<T, overflow_checks, N, vself, vother, mself, mrhs, writes>>

\* vself.fill(value)
VecFillOp ==
    /\ \E value \in ScalarVals :
        /\ vself' = VecFill(vself, value)
        /\ arg' = [NoArg EXCEPT !.which = "self", !.value = value]
    /\ op' = "vec_fill" /\ res' = NoRes /\ out' = "ok"
    /\ UNCHANGED <<T, overflow_checks, N, vother, mself, mrhs, writes>>

\* mself.fill(value)
MatFillOp ==
    /\ \E value \in ScalarVals :
        /\ mself' = MatFill(mself, value)
        /\ arg' = [NoArg EXCEPT !.which = "self", !.value = value]
    /\ op' = "mat_fill" /\ res' = NoRes /\ out' = "ok"
    /\ UNCHANGED <<T, overflow_checks, N, vself, vother, mrhs, writes>>

\* Every operation of Vec3<f64> and Mat3<f64>, the one scalar type all of
\* them are implemented for.
InitOps == InitWith({"f64"}, {3})

NextOps ==
    \/ VecFromArrayOp({"self", "other"})
    \/ MatFromMatOp({"self", "rhs"})
    \/ VecFillOp
    \/ MatFillOp
    \/ VecAddOp
    \/ VecSubOp
    \/ VecMulOp
    \/ VecDivOp
    \/ VecSumScalarOp
    \/ VecSubScalarOp
    \/ VecMulScalarOp
    \/ VecDivScalarOp
    \/ DotOp
    \/ LengthOp
    \/ NormalizeOp
    \/ CrossOp
    \/ MatAddOp
    \/ MatSubOp
    \/ MatMulOp
    \/ TransposeOp
    \/ MatSumScalarOp
    \/ MatSubScalarOp
    \/ MatMulScalarOp
    \/ MatDivScalarOp
    \/ MulMatVecOp
    \/ TranslateOp
    \/ RotateWith({Num(1)}, {[i \in 0 .. 2 |-> Num(i + 1)]})
    \/ ScaleOp

SpecOps == InitOps /\ [][NextOps]_vars

\* The scalar operations of vectors and matrices of dimension 2 over i8
\* (both builds) and f64.
InitScalar == InitWith({"i8", "f64"}, {2})

NextScalar ==
    \/ VecNewWithOp({"self"})
    \/ VecFromArrayOp({"self"})
    \/ MatNewWithOp({"self"})
    \/ MatFromMatOp({"self"})
    \/ VecSumScalarOp
    \/ VecSubScalarOp
    \/ VecMulScalarOp
    \/ VecDivScalarOp
    \/ MatSumScalarOp
    \/ MatSubScalarOp
    \/ MatMulScalarOp
    \/ MatDivScalarOp

SpecScalar == InitScalar /\ [][NextScalar]_vars

\* The vectors of the length doctests: [3, 4] and [1, 2, 2].
LengthVecs == {[i \in Pos |-> Num(IF N = 2 THEN 3 + i ELSE IF i = 0 THEN 1 ELSE 2)]}

\* length and normalize of vectors of dimension 2 and 3 over f64.
InitNorm == InitWith({"f64"}, {2, 3})

NextNorm ==
    \/ VecFromArrayWith({"self"}, LengthVecs)
    \/ VecNewWithOp({"self"})
    \/ VecIndexMutOp({"self"}, Pos)
    \/ LengthOp
    \/ NormalizeOp

SpecNorm == InitNorm /\ [][NextNorm]_vars

\* ------------------------------------------------------------------------
\* The matrix product followed by the matrix-vector product, and two
\* matrix-vector products in a row, for Mat2 and Mat3 of i8, i32, f32 and
\* f64.

\* The 2D arrays passed to from_mat: the one of RawMats, one that is not
\* symmetric and does not commute with it and, for the float types,
\* [[2^24, 1], [-2^24, 0]] padded with zeros.
ProductMats ==
    RawMats \cup {[i \in Pos |-> [j \in Pos |-> Num(IF j > i THEN -1 ELSE i + j)]]}
        \cup (IF IsFloat(T)
              THEN {[i \in Pos |-> [j \in Pos |->
                       Num(IF i = 0 /\ j = 0 THEN F32Exact
                           ELSE IF i = 1 /\ j = 0 THEN - F32Exact
                           ELSE IF i = 0 /\ j = 1 THEN 1 ELSE 0)]]}
              ELSE {})

\* res = (mself * mrhs).mul_mat_vec(&vother), or
\* res = mself.mul_mat_vec(&mrhs.mul_mat_vec(&vother))
MulMatVecOfOp ==
    /\ \E how \in {"product", "nested"} :
        /\ IF how = "product"
           THEN LET m == MatMul(mself, mrhs)
                IN  IF MPanics(m) THEN out' = "panic" /\ res' = NoRes
                    ELSE VecResult(MulMatVec(m, vother))
           ELSE LET v == MulMatVec(mrhs, vother)
                IN  IF VPanics(v) THEN out' = "panic" /\ res' = NoRes
                    ELSE VecResult(MulMatVec(mself, v))
        /\ arg' = [NoArg EXCEPT !.which = how]
    /\ op' = "mul_mat_vec_of"
    /\ UNCHANGED <<T, overflow_checks, N, vself, vother, mself, mrhs, writes>>

InitProduct == InitWith({"i8", "i32", "f32", "f64"}, {2, 3})

NextProduct ==
    \/ MatNewWithOp({"self", "rhs"})
    \/ MatFromMatWith({"self", "rhs"}, ProductMats)
    \/ MatIdentityOp({"self", "rhs"})
    \/ VecNewWithOp({"other"})
    \/ VecFromArrayOp({"other"})
    \/ MulMatVecOfOp

SpecProduct == InitProduct /\ [][NextProduct]_vars

\* ------------------------------------------------------------------------
\* The SinCosTan methods called on the elements of a Vec2 of i8, i32 and
\* f64.

\* res = vself[index].coss()
CossOp ==
    /\ \E index \in Pos :
        /\ res' = <<Coss(vself[index])>>
        /\ arg' = [NoArg EXCEPT !.i = index, !.value = vself[index]]
    /\ op' = "coss" /\ out' = "ok"
    /\ UNCHANGED <<T, overflow_checks, N, vself, vother, mself, mrhs, writes>>

\* res = vself[index].sinn()
SinnOp ==
    /\ \E index \in Pos :
        /\ res' = <<Sinn(vself[index])>>
        /\ arg' = [NoArg EXCEPT !.i = index, !.value = vself[index]]
    /\ op' = "sinn" /\ out' = "ok"
    /\ UNCHANGED <<T, overflow_checks, N, vself, vother, mself, mrhs, writes>>

\* res = vself[index].tann()
TannOp ==
    /\ \E index \in Pos :
        /\ res' = <<Tann(vself[index])>>
        /\ arg' = [NoArg EXCEPT !.i = index, !.value = vself[index]]
    /\ op' = "tann" /\ out' = "ok"
    /\ UNCHANGED <<T, overflow_checks, N, vself, vother, mself, mrhs, writes>>

InitTrig == InitWith({"i8", "i32", "f64"}, {2})

NextTrig ==
    \/ VecNewWithOp({"self"})
    \/ VecIndexMutOp({"self"}, Pos)
    \/ CossOp
    \/ SinnOp
    \/ TannOp

SpecTrig == InitTrig /\ [][NextTrig]_vars

\* ------------------------------------------------------------------------
\* Construction from raw arrays and export back to them, for Vec2, Vec3,
\* Mat2 and Mat3 of i8 and f64.

\* The arrays passed to from_array: those of RawVecs and one holding each
\* written value after its first element.
ConvVecs == RawVecs \cup {[i \in Pos |-> IF i = 1 THEN v ELSE Num(i)] : v \in WriteVals}

\* The 2D arrays passed to from_mat and, by rows, to from_mat_vec: those of
\* RawMats and one holding each written value above its diagonal.
ConvMats ==
    RawMats \cup {[i \in Pos |-> [j \in Pos |-> IF i = 0 /\ j = 1 THEN v ELSE Num(i)]] :
                     v \in WriteVals}

InitConv == InitWith({"i8", "f64"}, {2, 3})

NextConv ==
    \/ VecFromArrayWith({"self"}, ConvVecs)
    \/ VecNewWithOp({"self"})
    \/ VecToArrOp
    \/ MatFromMatWith({"self"}, ConvMats)
    \/ MatFromMatVecWith({"self"}, ConvMats)
    \/ MatNewWithOp({"self"})
    \/ MatToMatOp
    \/ MatToMatVecOp

SpecConv == InitConv /\ [][NextConv]_vars

\* ------------------------------------------------------------------------
\* The claims

\* Whether every entry of a matrix is a finite number.
MFinite(m) == \A i \in Pos, j \in Pos : IsNum(m[i][j])

\* The sum of the first k products A[i][0] * B[0][j], A[i][1] * B[1][j], ...
\* accumulated from T's default value.
RECURSIVE CellSum(_, _, _, _, _)
CellSum(A, B, i, j, k) ==
    IF k = 0 THEN Default
    ELSE SAdd(CellSum(A, B, i, j, k - 1), SMul(A[i][k - 1], B[k - 1][j]))

\* C1: the matrix product's cell [i][j] is the sum over k of
\* self[i][k] * rhs[k][j], accumulated from T's default value, in T's
\* arithmetic; the product panics exactly when one of those sums does.
C1_MatMulRowByColumn ==
    op = "mat_mul" =>
        /\ out = "panic" <=> \E i \in Pos, j \in Pos : IsPanic(CellSum(mself, mrhs, i, j, N))
        /\ out = "ok" => \A i \in Pos, j \in Pos : res[i][j] = CellSum(mself, mrhs, i, j, N)

\* C1's case: a product whose cell sums two non-zero terms, of a rhs that is
\* not symmetric.
C1_Witness ==
    /\ op = "mat_mul" /\ out = "ok" /\ T = "i32"
    /\ mrhs[0][1] # mrhs[1][0]
    /\ \A k \in Pos : mself[0][k] # Num(0) /\ mrhs[k][1] # Num(0)
    /\ res[0][1] = SAdd(SMul(mself[0][0], mrhs[0][1]), SMul(mself[0][1], mrhs[1][1]))

\* C2 as stated: identity() is neutral on both sides for every matrix.
C2_IdentityNeutralForEveryMatrix ==
    (op = "mat_mul" /\ T \in {"i32", "f64"}) =>
        /\ mrhs = Identity => (out = "ok" /\ res = mself)
        /\ mself = Identity => (out = "ok" /\ res = mrhs)

\* C2 amended: identity() is neutral on both sides for every matrix whose
\* entries are all finite (every matrix of an integer T).
C2_IdentityNeutralForFiniteMatrix ==
    (op = "mat_mul" /\ T \in {"i32", "f64"}) =>
        /\ (mrhs = Identity /\ MFinite(mself)) =>
               (out = "ok" /\ res = mself /\ MatEq(res, mself))
        /\ (mself = Identity /\ MFinite(mrhs)) =>
               (out = "ok" /\ res = mrhs /\ MatEq(res, mrhs))

\* C2's case: a finite matrix that is neither zero nor the identity,
\* multiplied by the identity on its right.
C2_Witness ==
    /\ op = "mat_mul" /\ out = "ok" /\ T = "f64"
    /\ mrhs = Identity /\ MFinite(mself)
    /\ mself # Identity /\ mself[0][1] # Num(0) /\ mself[0][0] # mself[0][1]
    /\ res = mself

\* The entry [i][j] of the identity matrix.
Unit(i, j) == IF i = j THEN Num(1) ELSE Num(0)

BuiltFromIdentity ==
    IF op = "translate" THEN Translate(Identity, arg.vec)
    ELSE IF op = "rotate" THEN Rotate(Identity, arg.value, arg.vec)
    ELSE Scale(Identity, arg.vec)

\* C4 as stated: translate, rotate and scale each return self multiplied by
\* the matrix they build.
C4_BuildersComposeWithSelf ==
    op \in {"translate", "rotate", "scale"} => res = MatMul(mself, BuiltFromIdentity)

\* C5 as stated: scale(values) is the identity matrix with the diagonal
\* entries other than the last set to the components of values.
C5_ScaleKeepsLastDiagonalEntry ==
    op = "scale" =>
        \A i \in Pos, j \in Pos :
            res[i][j] = IF i = j /\ i < N - 1 THEN arg.vec[i] ELSE Unit(i, j)

\* The elementary rotations of the claim, for a cosine c and a sine s.
Rx(c, s) ==
    [i \in Pos |-> [j \in Pos |->
        IF i = 1 /\ j = 1 THEN c ELSE IF i = 1 /\ j = 2 THEN SNeg(s)
        ELSE IF i = 2 /\ j = 1 THEN s ELSE IF i = 2 /\ j = 2 THEN c
        ELSE Unit(i, j)]]

Ry(c, s) ==
    [i \in Pos |-> [j \in Pos |->
        IF i = 0 /\ j = 0 THEN c ELSE IF i = 0 /\ j = 2 THEN s
        ELSE IF i = 2 /\ j = 0 THEN SNeg(s) ELSE IF i = 2 /\ j = 2 THEN c
        ELSE Unit(i, j)]]

Rz(c, s) ==
    [i \in Pos |-> [j \in Pos |->
        IF i = 0 /\ j = 0 THEN c ELSE IF i = 0 /\ j = 1 THEN SNeg(s)
        ELSE IF i = 1 /\ j = 0 THEN s ELSE IF i = 1 /\ j = 1 THEN c
        ELSE Unit(i, j)]]

\* The angle of the rotation about axis number a: axis[a] * angle.
AxisAngle(a) == SMul(arg.vec[a], arg.value)

\* C6: rotate(angle, axis) is self * ((Rx * Ry) * Rz), each elementary
\* rotation with the cosine and sine of axis[component] * angle.
C6_RotateIsSelfTimesRxRyRz ==
    op = "rotate" =>
        res = MatMul(mself,
                  MatMul(MatMul(Rx(Cos(AxisAngle(0)), Sin(AxisAngle(0))),
                                Ry(Cos(AxisAngle(1)), Sin(AxisAngle(1)))),
                         Rz(Cos(AxisAngle(2)), Sin(AxisAngle(2)))))

\* C6's case: a full Mat4 rotated about three different non-zero angles.
C6_Witness ==
    /\ op = "rotate" /\ N = 4
    /\ arg.value = Num(1) /\ arg.vec = [i \in 0 .. 2 |-> Num(i + 1)]
    /\ MFinite(mself) /\ mself[0][1] # mself[1][0]
    /\ res # mself

\* The IEEE 754 quotient x / 0 of a float x.
FloatOverZero(x) == IF IsNaN(x) \/ IsZero(x) THEN NaN ELSE Inf(FSign(x))

\* C7 as stated: normalize() of a vector of length zero returns the zero
\* vector.
C7_NormalizeZeroLengthIsZero ==
    (op = "normalize" /\ IsZero(Length(vself))) =>
        (out = "ok" /\ \A i \in Pos : res[i] = Num(0))

\* Whether the division at position i of the last operation had a zero
\* divisor.
ZeroDivisorAt(i) ==
    \/ op = "vec_div" /\ IsZero(vother[i])
    \/ op = "div_scalar" /\ arg.which = "self" /\ IsZero(arg.value)
    \/ op = "normalize" /\ IsZero(Length(vself))

IndexedStep(prev, next, inRange, element, written) ==
    IF inRange
    THEN /\ out' = "ok"
         /\ (op' \in {"vec_index", "mat_index"}) => (res' = <<element>> /\ next = prev)
         /\ (op' \in {"vec_index_mut", "mat_index_mut"}) => next = written
    ELSE out' = "panic" /\ res' = NoRes /\ next = prev

\* C9: an indexed read or write outside [0, N) panics, returns nothing and
\* leaves every element as it was; inside [0, N) a read returns exactly the
\* element at the position and a write replaces exactly that element.
C9_IndexingIsBoundsChecked ==
    [][ /\ (op' \in {"vec_index", "vec_index_mut"}) =>
            IndexedStep(vself, vself', arg'.i \in Pos,
                        IF arg'.i \in Pos THEN vself[arg'.i] ELSE Panic,
                        [k \in Pos |-> IF k = arg'.i THEN arg'.value ELSE vself[k]])
        /\ (op' \in {"mat_index", "mat_index_mut"}) =>
            IndexedStep(mself, mself', arg'.i \in Pos /\ arg'.j \in Pos,
                        IF arg'.i \in Pos /\ arg'.j \in Pos THEN mself[arg'.i][arg'.j] ELSE Panic,
                        [r \in Pos |-> [c \in Pos |->
                            IF r = arg'.i /\ c = arg'.j THEN arg'.value ELSE mself[r][c]]])
      ]_vars

\* C9's case: a write into a row that exists at a column that does not,
\* which panics.
C9_Witness ==
    /\ op = "mat_index_mut" /\ arg.i \in Pos /\ arg.j = N
    /\ out = "panic" /\ mself # MatNew

\* C10 as stated: (a + b) - b equals a for all vectors a and b.
C10_AddSubRoundTripForAllVectors ==
    (op = "vec_sub" /\ arg.which = "res") => (out = "ok" /\ VecEq(res, vself))

\* Whether x + y is computed exactly: always for an integer T once the sum
\* has been returned, and for a float T when both are finite and their sum
\* is a value of T.
ExactSum(x, y) ==
    IsFloat(T) => (IsNum(x) /\ IsNum(y) /\ Round(x[2] + y[2]) = x[2] + y[2])

\* C10 amended: (a + b) - b equals a whenever a + b has been returned and
\* each a[i] + b[i] was computed exactly.
C10_AddSubRoundTripForExactSums ==
    (op = "vec_sub" /\ arg.which = "res" /\ \A i \in Pos : ExactSum(vself[i], vother[i])) =>
        (out = "ok" /\ VecEq(res, vself))

\* C10's case: a round trip of two different non-zero f32 vectors.
C10_Witness ==
    /\ op = "vec_sub" /\ arg.which = "res" /\ T = "f32" /\ out = "ok"
    /\ \A i \in Pos : ExactSum(vself[i], vother[i]) /\ ~ IsZero(vother[i]) /\ ~ IsZero(vself[i])
    /\ vself # vother /\ vself[0] # vself[1]
    /\ VecEq(res, vself)

ExactProduct(x, s) ==
    /\ IsNum(x) /\ IsNum(s) /\ MulFits(x[2], s[2])
    /\ IF IsFloat(T) THEN Round(x[2] * s[2]) = x[2] * s[2]
       ELSE x[2] * s[2] >= IntMin(T) /\ x[2] * s[2] <= IntMax(T)

RECURSIVE RowSum(_, _, _, _)
RowSum(M, v, i, k) ==
    IF k = 0 THEN Default
    ELSE SAdd(RowSum(M, v, i, k - 1), SMul(M[i][k - 1], v[k - 1]))

\* C13: M.mul_mat_vec(v)[i] is the sum over j of M[i][j] * v[j], in T's
\* arithmetic, the call panicking exactly when one of those sums does; and
\* [[1,2],[3,4]] times [5,6] is [17,39].
C13_MulMatVecRowByVector ==
    op = "mul_mat_vec" =>
        /\ out = "panic" <=> \E i \in Pos : IsPanic(RowSum(mself, vother, i, N))
        /\ out = "ok" => \A i \in Pos : res[i] = RowSum(mself, vother, i, N)
        /\ (/\ N = 2 /\ \A i \in Pos, j \in Pos : mself[i][j] = Num(2 * i + j + 1)
            /\ \A j \in Pos : vother[j] = Num(5 + j)) =>
               (out = "ok" /\ res[0] = Num(17) /\ res[1] = Num(39))

\* C13's case: the doctest's product, of a matrix that is not symmetric.
C13_Witness ==
    /\ op = "mul_mat_vec" /\ out = "ok" /\ N = 2 /\ T = "f64"
    /\ mself[0][1] = Num(2) /\ mself[1][0] = Num(3)
    /\ vother[0] = Num(5) /\ vother[1] = Num(6)
    /\ res[0] = Num(17) /\ res[1] = Num(39)

\* C14: transpose() returns R with R[i][j] = self[j][i], every entry that
\* of the original self.
C14_TransposeSwapsRowsAndColumns ==
    (op = "transpose" /\ arg.which = "self") =>
        (out = "ok" /\ \A i \in Pos, j \in Pos : res[i][j] = mself[j][i])

\* C14's case: a 3 x 3 matrix whose entries above the diagonal all differ
\* from their mirror images, transposed.
C14_Witness ==
    /\ op = "transpose" /\ arg.which = "self" /\ N = 3
    /\ \A i \in Pos, j \in Pos : i # j => mself[i][j] # mself[j][i]
    /\ res # mself /\ res[0][2] = mself[2][0] /\ res[2][0] = mself[0][2]

\* C15: M.transpose().transpose() is M, entry for entry.
C15_TransposeIsInvolution ==
    (op = "transpose" /\ arg.which = "res") => (out = "ok" /\ res = mself)

\* C15's case: the second transpose of a matrix that is not symmetric.
C15_Witness ==
    /\ op = "transpose" /\ arg.which = "res" /\ N = 3
    /\ \E i \in Pos, j \in Pos : mself[i][j] # mself[j][i]
    /\ res = mself

\* C16: identity() has 1 at every [i][i] and T's default value elsewhere,
\* and for N = 2 the to_mat() of that matrix is [[1,0],[0,1]].
C16_IdentityIsUnitDiagonal ==
    /\ op = "identity" =>
           \A i \in Pos, j \in Pos : mself[i][j] = IF i = j THEN Num(1) ELSE Default
    /\ (op = "to_mat" /\ N = 2 /\ \A i \in Pos, j \in Pos : mself[i][j] = Unit(i, j)) =>
           res = (0 :> (0 :> Num(1) @@ 1 :> Num(0)) @@ 1 :> (0 :> Num(0) @@ 1 :> Num(1)))

\* C16's case: identity() of a 3 x 3 matrix over i32, just returned.
C16_Witness ==
    /\ op = "identity" /\ N = 3 /\ T = "i32"
    /\ mself[0][0] = Num(1) /\ mself[2][2] = Num(1) /\ mself[0][2] = Num(0)

\* The receiver a and the argument b of the last cross.
CrossA == IF arg.which = "self" THEN vself ELSE vother
CrossB == IF arg.which = "self" THEN vother ELSE vself

\* The component i of a cross b by the claim's formula, in T's arithmetic.
CrossComponent(a, b, i) ==
    IF i = 0 THEN SSub(SMul(a[1], b[2]), SMul(a[2], b[1]))
    ELSE IF i = 1 THEN SSub(SMul(a[2], b[0]), SMul(a[0], b[2]))
    ELSE SSub(SMul(a[0], b[1]), SMul(a[1], b[0]))

\* C17: a.cross(b) is [a1*b2 - a2*b1, a2*b0 - a0*b2, a0*b1 - a1*b0] in T's
\* arithmetic, the call panicking exactly when a component does; and
\* [1,2,3] cross [4,5,6] is [-3,6,-3].
C17_CrossFormula ==
    op = "cross" =>
        /\ out = "panic" <=> \E i \in Pos : IsPanic(CrossComponent(CrossA, CrossB, i))
        /\ out = "ok" => \A i \in Pos : res[i] = CrossComponent(CrossA, CrossB, i)
        /\ (\A i \in Pos : CrossA[i] = Num(i + 1) /\ CrossB[i] = Num(i + 4)) =>
               (out = "ok" /\ res[0] = Num(-3) /\ res[1] = Num(6) /\ res[2] = Num(-3))

\* C17's case: the doctest's vectors.
C17_Witness ==
    /\ op = "cross" /\ arg.which = "self" /\ out = "ok"
    /\ \A i \in Pos : vself[i] = Num(i + 1) /\ vother[i] = Num(i + 4)
    /\ res[0] = Num(-3) /\ res[1] = Num(6) /\ res[2] = Num(-3)

\* The component-wise negation of a vector.
VecNeg(v) == [i \in DOMAIN v |-> SNeg(v[i])]

\* C18 as stated: a.cross(b) equals the negation of b.cross(a) for all a and
\* b, and a.cross(a) is the zero vector.
C18_CrossAntiCommutesForAllVectors ==
    op = "cross" =>
        /\ out = "ok"
        /\ VecEq(res, VecNeg(Cross(CrossB, CrossA)))
        /\ CrossA = CrossB => \A i \in Pos : res[i] = Num(0)

\* Whether a and b are finite and both a.cross(b) and b.cross(a) return.
CrossesReturn(a, b) ==
    /\ \A i \in Pos : IsNum(a[i]) /\ IsNum(b[i])
    /\ ~ VPanics(Cross(a, b)) /\ ~ VPanics(Cross(b, a))

\* C18 amended: for finite a and b whose two cross products both return,
\* a.cross(b) equals the negation of b.cross(a), and a.cross(a) is zero.
C18_CrossAntiCommutesForFiniteVectors ==
    (op = "cross" /\ CrossesReturn(CrossA, CrossB)) =>
        /\ out = "ok"
        /\ VecEq(res, VecNeg(Cross(CrossB, CrossA)))
        /\ CrossA = CrossB => \A i \in Pos : res[i] = Num(0)

\* C18's case: a cross product with no zero component.
C18_Witness ==
    /\ op = "cross" /\ out = "ok" /\ CrossesReturn(CrossA, CrossB)
    /\ \A i \in Pos : ~ IsZero(res[i])
    /\ VecEq(res, VecNeg(Cross(CrossB, CrossA)))

\* The sum of the first k products a[0] * b[0], a[1] * b[1], ... from zero.
RECURSIVE DotSum(_, _, _)
DotSum(a, b, k) ==
    IF k = 0 THEN Default ELSE SAdd(DotSum(a, b, k - 1), SMul(a[k - 1], b[k - 1]))

ScalarOp(o, x, y) ==
    IF o \in {"vec_add", "mat_add"} THEN SAdd(x, y)
    ELSE IF o \in {"vec_sub", "mat_sub"} THEN SSub(x, y)
    ELSE IF o = "vec_mul" THEN SMul(x, y)
    ELSE SDiv(x, y)

\* C20: a + b, a - b, a * b and a / b of vectors hold a[i] op b[i] at every
\* i, and A + B and A - B of matrices hold A[i][j] op B[i][j] at every i, j;
\* an operation panics exactly when one of its positions does.
C20_OperatorsActPositionByPosition ==
    /\ (\/ op \in {"vec_add", "vec_mul", "vec_div"}
        \/ op = "vec_sub" /\ arg.which = "self") =>
           /\ out = "panic" <=> \E i \in Pos : IsPanic(ScalarOp(op, vself[i], vother[i]))
           /\ out = "ok" => \A i \in Pos : res[i] = ScalarOp(op, vself[i], vother[i])
    /\ op \in {"mat_add", "mat_sub"} =>
           /\ out = "panic" <=>
                  \E i \in Pos, j \in Pos : IsPanic(ScalarOp(op, mself[i][j], mrhs[i][j]))
           /\ out = "ok" =>
                  \A i \in Pos, j \in Pos : res[i][j] = ScalarOp(op, mself[i][j], mrhs[i][j])

\* C20's case: the difference of a matrix that is not symmetric and another
\* matrix with no zero entry.
C20_Witness ==
    /\ op = "mat_sub" /\ out = "ok"
    /\ mself[0][1] # mself[1][0] /\ mself # mrhs
    /\ \A i \in Pos, j \in Pos : IsNum(mrhs[i][j]) /\ ~ IsZero(mrhs[i][j])
    /\ res[0][1] = SSub(mself[0][1], mrhs[0][1]) /\ res[0][1] # res[1][0]

\* The operations that return a new vector, matrix or scalar.
TransformingOps ==
    {"vec_add", "vec_sub", "vec_mul", "vec_div",
     "sum_scalar", "sub_scalar", "mul_scalar", "div_scalar",
     "dot", "length", "normalize", "cross",
     "mat_add", "mat_sub", "mat_mul", "transpose",
     "mat_sum_scalar", "mat_sub_scalar", "mat_mul_scalar", "mat_div_scalar",
     "mul_mat_vec", "translate", "rotate", "scale"}

\* The operations that write into an existing vector or matrix.
WritingOps == {"vec_fill", "mat_fill", "vec_index_mut", "mat_index_mut"}

\* C12: every transforming operation leaves self and the other operand as
\* they were before the call; of the operations on an existing vector or
\* matrix only fill and the indexed writes change it.
C12_TransformingOpsLeaveOperands ==
    [][ /\ op' \in TransformingOps => UNCHANGED <<vself, vother, mself, mrhs>>
        /\ (op' \notin {"from_array", "from_mat"} /\ <<vself, vother, mself, mrhs>>' # <<vself, vother, mself, mrhs>>)
               => op' \in WritingOps
      ]_vars

\* C12's case: a sum that differs from both of its operands, which are as
\* they were.
C12_Witness ==
    /\ op = "vec_add" /\ out = "ok"
    /\ res # vself /\ res # vother
    /\ \A i \in Pos : ~ IsZero(vself[i]) /\ ~ IsZero(vother[i])

\* x op s for the scalar operation named o.
BroadcastOp(o, x, s) ==
    IF o \in {"sum_scalar", "mat_sum_scalar"} THEN SAdd(x, s)
    ELSE IF o \in {"sub_scalar", "mat_sub_scalar"} THEN SSub(x, s)
    ELSE IF o \in {"mul_scalar", "mat_mul_scalar"} THEN SMul(x, s)
    ELSE SDiv(x, s)

\* C21: the scalar operations of a vector hold v[i] op s at every i and
\* those of a matrix M[i][j] op s at every cell, an operation panicking
\* exactly when one of its positions does; and [[1,2],[3,4]].mul_scalar(2)
\* is [[2,4],[6,8]].
C21_ScalarOpsBroadcast ==
    /\ (\/ op \in {"sum_scalar", "sub_scalar", "mul_scalar"}
        \/ op = "div_scalar" /\ arg.which = "self") =>
           /\ out = "panic" <=> \E i \in Pos : IsPanic(BroadcastOp(op, vself[i], arg.value))
           /\ out = "ok" => \A i \in Pos : res[i] = BroadcastOp(op, vself[i], arg.value)
    /\ op \in {"mat_sum_scalar", "mat_sub_scalar", "mat_mul_scalar", "mat_div_scalar"} =>
           /\ out = "panic" <=>
                  \E i \in Pos, j \in Pos : IsPanic(BroadcastOp(op, mself[i][j], arg.value))
           /\ out = "ok" =>
                  \A i \in Pos, j \in Pos : res[i][j] = BroadcastOp(op, mself[i][j], arg.value)
    /\ (/\ op = "mat_mul_scalar" /\ arg.value = Num(2) /\ N = 2
        /\ \A i \in Pos, j \in Pos : mself[i][j] = Num(2 * i + j + 1)) =>
           (out = "ok" /\ \A i \in Pos, j \in Pos : res[i][j] = Num(2 * (2 * i + j + 1)))

\* C21's case: [[1,2],[3,4]].mul_scalar(2).
C21_Witness ==
    /\ op = "mat_mul_scalar" /\ arg.value = Num(2) /\ out = "ok"
    /\ \A i \in Pos, j \in Pos : mself[i][j] = Num(2 * i + j + 1)
    /\ res[0][0] = Num(2) /\ res[0][1] = Num(4) /\ res[1][0] = Num(6) /\ res[1][1] = Num(8)

\* The sum of the squares of the first k elements of v, from zero.
RECURSIVE SumOfSquares(_, _)
SumOfSquares(v, k) ==
    IF k = 0 THEN Default ELSE SAdd(SumOfSquares(v, k - 1), SMul(v[k - 1], v[k - 1]))

\* C22: length() is the square root of the sum of the squares of the
\* elements; [3,4] has length 5 and [1,2,2] has length 3.
C22_LengthIsRootOfSumOfSquares ==
    op = "length" =>
        /\ out = "ok" /\ res = <<Sqrrt(SumOfSquares(vself, N))>>
        /\ (N = 2 /\ vself[0] = Num(3) /\ vself[1] = Num(4)) => res = <<Num(5)>>
        /\ (N = 3 /\ vself[0] = Num(1) /\ vself[1] = Num(2) /\ vself[2] = Num(2)) =>
               res = <<Num(3)>>

\* C22's case: the length of [1,2,2].
C22_Witness ==
    /\ op = "length" /\ N = 3
    /\ vself[0] = Num(1) /\ vself[1] = Num(2) /\ vself[2] = Num(2)
    /\ res = <<Num(3)>>

\* The square of a quotient the model keeps unevaluated, as the fraction
\* <<numerator, denominator>> of the exact real value: of a number, of a
\* quotient of two numbers, and of a number over the square root of a
\* number. <<0, 0>> stands for a value that is not one of these.
SquareOf(x) ==
    IF IsNum(x) THEN <<x[2] * x[2], 1>>
    ELSE IF Tag(x) = "q" /\ IsNum(x[2]) /\ IsNum(x[3])
        THEN <<x[2][2] * x[2][2], x[3][2] * x[3][2]>>
    ELSE IF Tag(x) = "q" /\ IsNum(x[2]) /\ Tag(x[3]) = "sqrt" /\ IsNum(x[3][2])
        THEN <<x[2][2] * x[2][2], x[3][2][2]>>
    ELSE <<0, 0>>

\* The sum of the squares of the first k elements of v as a fraction.
RECURSIVE SquaresFraction(_, _)
SquaresFraction(v, k) ==
    IF k = 0 THEN <<0, 1>>
    ELSE LET s == SquaresFraction(v, k - 1)
             q == SquareOf(v[k - 1])
         IN  <<s[1] * q[2] + q[1] * s[2], s[2] * q[2]>>

\* Whether the exact length of v is 1.
UnitLength(v) ==
    LET s == SquaresFraction(v, N) IN s[2] > 0 /\ s[1] = s[2]

\* The length of vself by the claim's formula.
ClaimedLength == Sqrrt(SumOfSquares(vself, N))

\* C23 as stated: for v of non-zero length, normalize()[i] is
\* v[i] / v.length() and the normalized vector has length 1.
C23_NormalizeOfNonZeroLength ==
    (op = "normalize" /\ ~ IsZero(ClaimedLength)) =>
        /\ out = "ok" /\ \A i \in Pos : res[i] = SDiv(vself[i], ClaimedLength)
        /\ UnitLength(res)

\* C23 amended: for v of finite non-zero length, normalize()[i] is
\* v[i] / v.length() and the normalized vector has length 1.
C23_NormalizeOfFiniteNonZeroLength ==
    (op = "normalize" /\ ~ IsZero(ClaimedLength) /\ IsFinite(ClaimedLength)) =>
        /\ out = "ok" /\ \A i \in Pos : res[i] = SDiv(vself[i], ClaimedLength)
        /\ UnitLength(res)

\* C23's case: [1,2,2] normalized, no component of the result being a whole
\* number.
C23_Witness ==
    /\ op = "normalize" /\ N = 3
    /\ vself[0] = Num(1) /\ vself[1] = Num(2) /\ vself[2] = Num(2)
    /\ \A i \in Pos : res[i] = <<"q", vself[i], Num(3)>>
    /\ UnitLength(res)

\* The rows of a 2D array each converted with from_array.
RowsFromArray(m) == [i \in Pos |-> FromArray(m[i])]

\* C24: from_array(a).to_arr() is a, from_mat(m).to_mat() is m,
\* from_mat_vec(r).to_mat_vec() is r, and from_mat(m) is from_mat_vec of the
\* rows of m each converted with from_array.
C24_ConstructionExportRoundTrip ==
    /\ (op \in {"to_arr", "to_mat", "to_mat_vec"} /\ arg.which = "built") =>
        out = "ok" /\ res = arg.data
    /\ (op = "from_mat" /\ arg.which = "self") =>
        mself = FromMatVec(RowsFromArray(arg.data))

\* C24's case: a 2D array whose rows differ, built with from_mat and
\* exported with to_mat.
C24_Witness ==
    /\ op = "to_mat" /\ arg.which = "built" /\ res = arg.data
    /\ arg.data[0] # arg.data[1] /\ arg.data[0][1] = NaN
    /\ mself = FromMatVec(RowsFromArray(arg.data))

\* Whether the last step was a rotate with angle 0 or with the zero axis.
RotatesByNothing ==
    /\ op = "rotate"
    /\ IsZero(arg.value) \/ \A a \in 0 .. 2 : IsZero(arg.vec[a])

\* C25 as stated: rotate with angle 0, or with the zero axis, returns a
\* matrix equal to self, for every Mat3 and Mat4 self.
C25_RotateByNothingReturnsSelf ==
    RotatesByNothing => out = "ok" /\ res = mself

\* C25 amended: rotate with angle 0, or with the zero axis, returns a matrix
\* equal to self when the entries of self, the angle and the axis are all
\* finite.
C25_RotateByNothingReturnsFiniteSelf ==
    (/\ RotatesByNothing /\ MFinite(mself)
     /\ IsNum(arg.value) /\ \A a \in 0 .. 2 : IsNum(arg.vec[a])) =>
        out = "ok" /\ res = mself

\* C25's case: a Mat4 with different finite entries rotated by angle 0 about
\* a non-zero axis.
C25_Witness ==
    /\ RotatesByNothing /\ N = 4
    /\ arg.vec = [i \in 0 .. 2 |-> Num(i + 1)]
    /\ MFinite(mself) /\ mself[0][1] # mself[1][0]
    /\ res = mself

\* Whether every element of a vector is a finite number.
VFinite(v) == \A i \in Pos : IsNum(v[i])

\* (mself * mrhs).mul_mat_vec(&vother), Panic marking an overflow panic.
ProductThenVec ==
    LET m == MatMul(mself, mrhs)
    IN  IF MPanics(m) THEN [i \in Pos |-> Panic] ELSE MulMatVec(m, vother)

\* mself.mul_mat_vec(&mrhs.mul_mat_vec(&vother))
VecThenVec ==
    LET v == MulMatVec(mrhs, vother)
    IN  IF VPanics(v) THEN [i \in Pos |-> Panic] ELSE MulMatVec(mself, v)

\* Whether the operands are finite and neither way of computing the product
\* panics on overflow or leaves the finite numbers.
NoOverflow ==
    /\ MFinite(mself) /\ MFinite(mrhs) /\ VFinite(vother)
    /\ VFinite(ProductThenVec) /\ VFinite(VecThenVec)

\* C26 as stated: for operands small enough not to overflow,
\* (A * B).mul_mat_vec(v) equals A.mul_mat_vec(B.mul_mat_vec(v)).
C26_ProductThenVecIsVecThenVec ==
    (op = "mul_mat_vec_of" /\ NoOverflow) =>
        /\ out = "ok"
        /\ res = IF arg.which = "product" THEN VecThenVec ELSE ProductThenVec
        /\ VecEq(ProductThenVec, VecThenVec)

\* Whether no sum or product of either computation is rounded: T is not
\* f32, or the N * N products a * b * c of an entry of each operand together
\* stay within the integers an f32 holds exactly.
NoRounding ==
    \/ T # "f32"
    \/ \A i \in Pos, j \in Pos, k \in Pos, l \in Pos, c \in Pos :
        LET a == Abs(mself[i][j][2])
            b == Abs(mrhs[k][l][2])
        IN  /\ a <= 4096 /\ b <= 4096
            /\ a * b = 0 \/ Abs(vother[c][2]) <= F32Exact \div (a * b * N * N)

\* C26 amended: for operands small enough that nothing overflows and no sum
\* or product is rounded, (A * B).mul_mat_vec(v) equals
\* A.mul_mat_vec(B.mul_mat_vec(v)).
C26_ExactProductThenVecIsVecThenVec ==
    (op = "mul_mat_vec_of" /\ NoOverflow /\ NoRounding) =>
        /\ out = "ok"
        /\ res = IF arg.which = "product" THEN VecThenVec ELSE ProductThenVec
        /\ VecEq(ProductThenVec, VecThenVec)

\* C26's case: two Mat3 that do not commute, neither symmetric, applied to a
\* vector of different non-zero elements.
C26_Witness ==
    /\ op = "mul_mat_vec_of" /\ arg.which = "product" /\ NoOverflow /\ N = 3
    /\ MatMul(mself, mrhs) # MatMul(mrhs, mself)
    /\ mself[0][1] # mself[1][0] /\ mrhs[0][1] # mrhs[1][0]
    /\ vother[0] # vother[1] /\ ~ IsZero(res[0])
    /\ res = VecThenVec /\ res # MulMatVec(mrhs, MulMatVec(mself, vother))

\* C27 as stated: for the integer types coss is the cosine, sinn the sine and
\* tann the tangent, computed in f64 and truncated (the sine of an integer
\* lies strictly between -1 and 1 and truncates to 0), so that coss(0) = 1,
\* sinn(0) = 0 and tann(0) = 0.
C27_IntegerSinCosTanDiffer ==
    ~ IsFloat(T) =>
        /\ op = "coss" => res = <<IF IsZero(arg.value) THEN Num(1) ELSE Num(0)>>
        /\ op = "sinn" => res = <<Num(0)>>
        /\ (op = "tann" /\ IsZero(arg.value)) => res = <<Num(0)>>

====
